---- MODULE Spec2Model ----
(***************************************************************************)
(* Agentic-RAG-Control-Plane: the agent state machine                      *)
(* (src/agent_state_machine.py) and the tool registry / executor           *)
(* (src/tools/registry.py).                                                *)
(***************************************************************************)
EXTENDS Integers, Sequences, FiniteSets, TLC

\* Python's None.
None == "None"

(***************************************************************************)
(* Bounds of the model.                                                    *)
(***************************************************************************)
\* Largest max_retries a caller passes to AgentContext.
MaxRetriesBound == 3
\* Cap on the handler executions of one run; a run of the controller as
\* written stays far below it (see StepCapNotReached).
MaxSteps == 40

\* The user queries a caller passes: the empty one and two non-empty ones.
Goals == {"", "demo query", "other query"}

\* The verdicts of the evaluation capability (spec section 6).  The
\* placeholder body of _evaluate only ever produces "sufficient"; _reflect
\* and _transition are written for both verdicts.
Verdicts == {"sufficient", "insufficient"}

\* Largest number of entries of a plan.
MaxPlanLen == 2

\* The plans of the planning capability (spec section 6): sequences of tool
\* names, the empty one for "no tool needed".  The placeholder body of _plan
\* only ever produces <<"mock_sql">>; _execute_tool is written for any plan.
PlanTools == {"mock_sql", "mock_vector_search"}

Plans == UNION {[1..n -> PlanTools] : n \in 0..MaxPlanLen}

VARIABLES
    state,      \* AgentController.state
    context,    \* AgentController.context, an AgentContext
    pc,         \* position of run(): "run" in its first call, "rerun" in a later
                \* call, "returned" after a call
    raised,     \* the exception that left run(), or None
    context0,   \* history: the context as it was constructed
    trace,      \* history: the states whose handler has been executed, in order
    verdicts,   \* history: the verdicts _evaluate has stored, in order
    _tools,     \* ToolRegistry._tools: the entries of the dict, in insertion order
    firstReg,   \* history: for each name, the tool of the first register_tool call
    call,       \* the last call made on the registry or the executor, and its outcome
    runs,       \* two concurrent run_once calls: for each its controller
    heap        \* the list objects the contexts of `runs` refer to, by address

ctlVars == <<state, context, pc, raised, context0, trace, verdicts>>
toolVars == <<_tools, firstReg, call>>
runVars == <<runs, heap>>

(***************************************************************************)
(* AgentContext (dataclass) and AgentState (enum).                         *)
(***************************************************************************)
AgentContext(user_query, max_retries) ==
    [ user_query    |-> user_query,
      intent        |-> None,
      planned_tools |-> << >>,
      tool_results  |-> << >>,
      evaluation    |-> None,
      retries       |-> 0,
      max_retries   |-> max_retries ]

AgentState == {"ENTRY", "PLAN", "EXECUTE_TOOL", "EVALUATE", "REFLECT", "GENERATE", "END"}

(***************************************************************************)
(* The state handlers, as functions from the context to the context.       *)
(***************************************************************************)
\* Variant of _entry without the validation.
_entry_no_check(ctx) ==
    None

\* _entry: the exception it raises, or None.
_entry(ctx) ==
    IF ctx.user_query = "" THEN "ValueError: user_query must be non-empty" ELSE None

\* _plan stores the intent and the plan of the planning.
_plan(ctx, plan) ==
    [ctx EXCEPT !.intent = "answer_user_query", !.planned_tools = plan]

\* Variant of _execute_tool that replaces the results by the new one.
_execute_tool_overwrite(ctx) ==
    IF ctx.planned_tools # << >>
    THEN [ctx EXCEPT !.tool_results =
              <<ctx.planned_tools[1] \o "_result_placeholder">>]
    ELSE [ctx EXCEPT !.tool_results = <<"no_tool_planned">>]

\* Variant of _execute_tool that takes the plan entry after the last executed.
_execute_tool_next(ctx) ==
    IF ctx.planned_tools # << >>
    THEN [ctx EXCEPT !.tool_results =
              Append(@, ctx.planned_tools[(Len(ctx.tool_results)
                                             % Len(ctx.planned_tools)) + 1]
                           \o "_result_placeholder")]
    ELSE [ctx EXCEPT !.tool_results = Append(@, "no_tool_planned")]

_execute_tool(ctx) ==
    IF ctx.planned_tools # << >>
    THEN [ctx EXCEPT !.tool_results =
              Append(@, ctx.planned_tools[1] \o "_result_placeholder")]
    ELSE [ctx EXCEPT !.tool_results = Append(@, "no_tool_planned")]

\* _evaluate stores the verdict v of the evaluation.
_evaluate(ctx, v) ==
    [ctx EXCEPT !.evaluation = v]

\* Variant of _reflect that forgets to count the retry.
_reflect_no_increment(ctx) ==
    ctx

\* Variant of _reflect that counts every visit.
_reflect_always(ctx) ==
    [ctx EXCEPT !.retries = @ + 1]

_reflect(ctx) ==
    IF ctx.evaluation # "sufficient"
    THEN [ctx EXCEPT !.retries = @ + 1]
    ELSE ctx

\* _generate is `pass`: the context has no response field and gets none.
_generate(ctx) ==
    ctx

\* Variant of _transition whose retry branch ignores the retry budget.
_transition_unbounded(s, ctx) ==
    CASE s = "ENTRY"        -> "PLAN"
      [] s = "PLAN"         -> "EXECUTE_TOOL"
      [] s = "EXECUTE_TOOL" -> "EVALUATE"
      [] s = "EVALUATE"     -> "REFLECT"
      [] s = "REFLECT"      ->
            IF ctx.evaluation = "sufficient" THEN "GENERATE" ELSE "EXECUTE_TOOL"
      [] s = "GENERATE"     -> "END"
      [] s = "END"          -> "END"

\* Variant of _transition that compares retries with <= instead of <.
_transition_le(s, ctx) ==
    CASE s = "ENTRY"        -> "PLAN"
      [] s = "PLAN"         -> "EXECUTE_TOOL"
      [] s = "EXECUTE_TOOL" -> "EVALUATE"
      [] s = "EVALUATE"     -> "REFLECT"
      [] s = "REFLECT"      ->
            IF ctx.evaluation = "sufficient" THEN "GENERATE"
            ELSE IF ctx.retries <= ctx.max_retries THEN "EXECUTE_TOOL"
            ELSE "GENERATE"
      [] s = "GENERATE"     -> "END"
      [] s = "END"          -> "END"

\* Variant of _transition whose retry goes back to PLAN.
_transition_replan(s, ctx) ==
    CASE s = "ENTRY"        -> "PLAN"
      [] s = "PLAN"         -> "EXECUTE_TOOL"
      [] s = "EXECUTE_TOOL" -> "EVALUATE"
      [] s = "EVALUATE"     -> "REFLECT"
      [] s = "REFLECT"      ->
            IF ctx.evaluation = "sufficient" THEN "GENERATE"
            ELSE IF ctx.retries < ctx.max_retries THEN "PLAN"
            ELSE "GENERATE"
      [] s = "GENERATE"     -> "END"
      [] s = "END"          -> "END"

_transition(s, ctx) ==
    CASE s = "ENTRY"        -> "PLAN"
      [] s = "PLAN"         -> "EXECUTE_TOOL"
      [] s = "EXECUTE_TOOL" -> "EVALUATE"
      [] s = "EVALUATE"     -> "REFLECT"
      [] s = "REFLECT"      ->
            IF ctx.evaluation = "sufficient" THEN "GENERATE"
            ELSE IF ctx.retries < ctx.max_retries THEN "EXECUTE_TOOL"
            ELSE "GENERATE"
      [] s = "GENERATE"     -> "END"
      [] s = "END"          -> "END"

(***************************************************************************)
(* run(): one action per iteration of the loop, by the state it is in.     *)
(* Each is _step() followed by state = _transition().                      *)
(***************************************************************************)
InLoop(s) ==
    /\ pc \in {"run", "rerun"}
    /\ raised = None
    /\ state = s
    /\ Len(trace) < MaxSteps

Entry ==
    /\ InLoop("ENTRY")
    /\ IF _entry(context) # None
       THEN /\ raised' = _entry(context)
            /\ UNCHANGED <<state, context, pc, context0, trace, verdicts, toolVars, runVars>>
       ELSE /\ state' = _transition(state, context)
            /\ trace' = Append(trace, state)
            /\ UNCHANGED <<context, pc, raised, context0, verdicts, toolVars, runVars>>

Plan ==
    /\ InLoop("PLAN")
    /\ \E plan \in Plans : context' = _plan(context, plan)
    /\ state' = _transition(state, context')
    /\ trace' = Append(trace, state)
    /\ UNCHANGED <<pc, raised, context0, verdicts, toolVars, runVars>>

ExecuteTool ==
    /\ InLoop("EXECUTE_TOOL")
    /\ context' = _execute_tool(context)
    /\ state' = _transition(state, context')
    /\ trace' = Append(trace, state)
    /\ UNCHANGED <<pc, raised, context0, verdicts, toolVars, runVars>>

Evaluate ==
    /\ InLoop("EVALUATE")
    /\ \E v \in Verdicts :
          /\ context' = _evaluate(context, v)
          /\ verdicts' = Append(verdicts, v)
    /\ state' = _transition(state, context')
    /\ trace' = Append(trace, state)
    /\ UNCHANGED <<pc, raised, context0, toolVars, runVars>>

Reflect ==
    /\ InLoop("REFLECT")
    /\ context' = _reflect(context)
    /\ state' = _transition(state, context')
    /\ trace' = Append(trace, state)
    /\ UNCHANGED <<pc, raised, context0, verdicts, toolVars, runVars>>

Generate ==
    /\ InLoop("GENERATE")
    /\ context' = _generate(context)
    /\ state' = _transition(state, context')
    /\ trace' = Append(trace, state)
    /\ UNCHANGED <<pc, raised, context0, verdicts, toolVars, runVars>>

\* Variant of Return that rewinds the controller for its next use.
Return_reset ==
    /\ pc \in {"run", "rerun"}
    /\ raised = None
    /\ state = "END"
    /\ pc' = "returned"
    /\ state' = "ENTRY"
    /\ UNCHANGED <<context, raised, context0, trace, verdicts, toolVars, runVars>>

\* The loop condition fails in END and run() returns the context.
Return ==
    /\ pc \in {"run", "rerun"}
    /\ raised = None
    /\ state = "END"
    /\ pc' = "returned"
    /\ UNCHANGED <<state, context, raised, context0, trace, verdicts, toolVars, runVars>>

\* run() is called again on the controller after it has returned.
RunAgain ==
    /\ pc = "returned"
    /\ pc' = "rerun"
    /\ UNCHANGED <<state, context, raised, context0, trace, verdicts, toolVars, runVars>>

(***************************************************************************)
(* src/tools/registry.py: tools, requests and results.                     *)
(* A dict is a sequence of entries in insertion order; a dict whose order  *)
(* no code reads is a function or a set of <<key, value>> pairs.           *)
(***************************************************************************)
\* Values a caller passes as parameters, written as Python literals.
ParamValues == {"'SELECT 1'", "1", "True", "[0.1, 0.2]"}

\* type(value).__name__
TypeOf(value) ==
    CASE value = "'SELECT 1'"  -> "str"
      [] value = "1"           -> "int"
      [] value = "True"        -> "bool"
      [] value = "[0.1, 0.2]"  -> "list"

\* isinstance(value, expected_type): bool is a subclass of int.
IsInstance(value, expected_type) ==
    \/ TypeOf(value) = expected_type
    \/ TypeOf(value) = "bool" /\ expected_type = "int"

\* Keys a caller uses in params.
ParamKeys == {"query", "limit", "embedding", "bogus"}

\* Largest number of entries of a request's params.
MaxParams == 2

\* The params dicts of the requests: entries <<key, value>> in insertion
\* order, no key twice.
ParamDicts ==
    { p \in UNION {[1..n -> ParamKeys \X ParamValues] : n \in 0..MaxParams} :
        \A i, j \in 1..Len(p) : i # j => p[i][1] # p[j][1] }

\* `key in params`, params[key] and params.get(key, default)
HasKey(params, key) ==
    \E i \in 1..Len(params) : params[i][1] = key

GetParam(params, key, default) ==
    IF HasKey(params, key)
    THEN params[CHOOSE i \in 1..Len(params) : params[i][1] = key][2]
    ELSE default

MockSQLTool ==
    [ name            |-> "mock_sql",
      description     |-> "Execute a predefined SQL query against a mock database.",
      param_schema    |-> ("query" :> "str") @@ ("limit" :> "int"),
      required_params |-> <<"query">> ]

MockVectorSearchTool ==
    [ name            |-> "mock_vector_search",
      description     |-> "Run a mock vector similarity search against a corpus.",
      param_schema    |-> ("embedding" :> "list") @@ ("top_k" :> "int"),
      required_params |-> <<"embedding">> ]

\* Two more implementations of the Tool protocol that a caller registers: one
\* that reuses the name mock_sql, and one whose body may return or raise.
OtherSQLTool ==
    [ name            |-> "mock_sql",
      description     |-> "Another tool registered under the name mock_sql.",
      param_schema    |-> ("query" :> "str"),
      required_params |-> <<"query">> ]

CustomTool ==
    [ name            |-> "custom",
      description     |-> "A tool whose body may fail.",
      param_schema    |-> ("limit" :> "int"),
      required_params |-> << >> ]

ToolUniverse == {MockSQLTool, MockVectorSearchTool, OtherSQLTool, CustomTool}

\* No tool (the tool of a call that has none).
NoTool ==
    [ name |-> None, description |-> None, param_schema |-> << >>,
      required_params |-> << >> ]

\* The tool names requests use, in ascending order of Python's str comparison.
ToolNames == <<"custom", "mock_sql", "mock_vector_search", "unknown_tool">>

\* a < b on str
StrLess(a, b) ==
    \E i, j \in 1..Len(ToolNames) : ToolNames[i] = a /\ ToolNames[j] = b /\ i < j

\* What a tool body does when it is invoked.
BodyBehaviours == {"returns", "Exception", "BaseException"}

ToolResult(tool_name, ok, data, error) ==
    [ tool_name |-> tool_name, ok |-> ok, data |-> data, error |-> error ]

\* No ToolResult (the result of a call that returned none).
NoResult == ToolResult(None, FALSE, {}, None)

\* rows[:limit] of MockSQLTool.run, rendered; limit is 10, 1 or True.
SqlRows(limit) ==
    IF limit = "10"
    THEN "[{id: 1, value: alpha}, {id: 2, value: beta}]"
    ELSE "[{id: 1, value: alpha}]"

\* Tool.run(params): [raises, message, output].  The bodies of the two mock
\* tools are the ones of the source; the body of any other tool behaves as
\* `behaviour` says.
Run(tool, params, behaviour) ==
    IF tool = MockSQLTool
    THEN IF ~HasKey(params, "query")
         THEN [raises |-> "Exception", message |-> "'query'", output |-> {}]
         ELSE [raises |-> None, message |-> None,
               output |-> { <<"rows", SqlRows(GetParam(params, "limit", "10"))>>,
                            <<"query", GetParam(params, "query", None)>> }]
    ELSE IF tool = MockVectorSearchTool
    THEN [raises |-> None, message |-> None,
          output |-> { <<"matches", "[doc-1 0.92, doc-2 0.87, doc-3 0.81]">> }]
    ELSE IF behaviour = "returns"
    THEN [raises |-> None, message |-> None, output |-> { <<"value", "done">> }]
    ELSE [raises |-> behaviour, message |-> "boom", output |-> {}]

(***************************************************************************)
(* ToolRegistry                                                            *)
(***************************************************************************)
\* `name in self._tools`
Contains(d, name) ==
    \E i \in 1..Len(d) : d[i].name = name

\* self._tools[name]
Item(d, name) ==
    d[CHOOSE i \in 1..Len(d) : d[i].name = name].tool

\* self._tools[name] = tool: a present key keeps its place.
SetItem(d, name, tool) ==
    IF Contains(d, name)
    THEN [i \in 1..Len(d) |->
             IF d[i].name = name THEN [name |-> name, tool |-> tool] ELSE d[i]]
    ELSE Append(d, [name |-> name, tool |-> tool])

\* Variant of register_tool without the duplicate check.
register_tool_overwrite(d, tool) ==
    [raised |-> None, tools |-> SetItem(d, tool.name, tool)]

\* register_tool: [raised, tools]
register_tool(d, tool) ==
    IF Contains(d, tool.name)
    THEN [raised |-> "ValueError: Tool already registered: " \o tool.name,
          tools  |-> d]
    ELSE [raised |-> None, tools |-> SetItem(d, tool.name, tool)]

\* get_tool: [raised, tool]
get_tool(d, name) ==
    IF ~Contains(d, name)
    THEN [raised |-> "KeyError: 'Tool not found: " \o name \o "'", tool |-> NoTool]
    ELSE [raised |-> None, tool |-> Item(d, name)]

\* sorted(): insertion of x into the sorted sequence s.
RECURSIVE SortedInsert(_, _)
SortedInsert(s, x) ==
    IF s = << >> THEN <<x>>
    ELSE IF StrLess(x, Head(s)) THEN <<x>> \o s
    ELSE <<Head(s)>> \o SortedInsert(Tail(s), x)

RECURSIVE Sorted(_)
Sorted(s) ==
    IF s = << >> THEN << >> ELSE SortedInsert(Sorted(Tail(s)), Head(s))

\* Variant of list_tools without sorted().
list_tools_unsorted(d) ==
    [i \in 1..Len(d) |-> d[i].name]

\* list_tools
list_tools(d) ==
    Sorted([i \in 1..Len(d) |-> d[i].name])

(***************************************************************************)
(* ToolExecutor                                                            *)
(***************************************************************************)
\* The three loops of _validate_params: the index of the first offending
\* entry from position i on, or 0.
RECURSIVE FirstUnexpected(_, _, _)
FirstUnexpected(tool, params, i) ==
    IF i > Len(params) THEN 0
    ELSE IF params[i][1] \notin DOMAIN tool.param_schema THEN i
    ELSE FirstUnexpected(tool, params, i + 1)

RECURSIVE FirstMissing(_, _, _)
FirstMissing(tool, params, i) ==
    IF i > Len(tool.required_params) THEN 0
    ELSE IF ~HasKey(params, tool.required_params[i]) THEN i
    ELSE FirstMissing(tool, params, i + 1)

RECURSIVE FirstMistyped(_, _, _)
FirstMistyped(tool, params, i) ==
    IF i > Len(params) THEN 0
    ELSE IF ~IsInstance(params[i][2], tool.param_schema[params[i][1]]) THEN i
    ELSE FirstMistyped(tool, params, i + 1)

\* Variant of _validate_params that looks for missing keys first.
_validate_params_missing_first(tool, params) ==
    IF FirstMissing(tool, params, 1) # 0
    THEN "Missing required parameter: "
            \o tool.required_params[FirstMissing(tool, params, 1)]
    ELSE IF FirstUnexpected(tool, params, 1) # 0
    THEN "Unexpected parameter: " \o params[FirstUnexpected(tool, params, 1)][1]
    ELSE IF FirstMistyped(tool, params, 1) # 0
    THEN "Invalid type for " \o params[FirstMistyped(tool, params, 1)][1]
            \o ": expected "
            \o tool.param_schema[params[FirstMistyped(tool, params, 1)][1]]
    ELSE None

\* _validate_params: the error message, or None.
_validate_params(tool, params) ==
    IF FirstUnexpected(tool, params, 1) # 0
    THEN "Unexpected parameter: " \o params[FirstUnexpected(tool, params, 1)][1]
    ELSE IF FirstMissing(tool, params, 1) # 0
    THEN "Missing required parameter: "
            \o tool.required_params[FirstMissing(tool, params, 1)]
    ELSE IF FirstMistyped(tool, params, 1) # 0
    THEN "Invalid type for " \o params[FirstMistyped(tool, params, 1)][1]
            \o ": expected "
            \o tool.param_schema[params[FirstMistyped(tool, params, 1)][1]]
    ELSE None

\* Variant of execute without the try/except around tool.run.
execute_unguarded(d, tool_name, params, behaviour) ==
    IF get_tool(d, tool_name).raised # None
    THEN [raised |-> None, body |-> "not invoked", steps |-> <<"lookup">>,
          result |-> ToolResult(tool_name, FALSE, {},
                                "'Tool not found: " \o tool_name \o "'")]
    ELSE LET tool == get_tool(d, tool_name).tool
             validation_error == _validate_params(tool, params)
             run == Run(tool, params, behaviour)
         IN  IF validation_error # None
             THEN [raised |-> None, body |-> "not invoked",
                   steps |-> <<"lookup", "validate">>,
                   result |-> ToolResult(tool.name, FALSE, {}, validation_error)]
             ELSE IF run.raises = None
             THEN [raised |-> None, body |-> "returned",
                   steps |-> <<"lookup", "validate", "run">>,
                   result |-> ToolResult(tool.name, TRUE, run.output, None)]
             ELSE [raised |-> run.raises \o ": " \o run.message,
                   steps |-> <<"lookup", "validate", "run">>,
                   body |-> run.raises, result |-> NoResult]

\* Variant of execute that drops the message of a failed tool body.
execute_no_error(d, tool_name, params, behaviour) ==
    IF get_tool(d, tool_name).raised # None
    THEN [raised |-> None, body |-> "not invoked", steps |-> <<"lookup">>,
          result |-> ToolResult(tool_name, FALSE, {},
                                "'Tool not found: " \o tool_name \o "'")]
    ELSE LET tool == get_tool(d, tool_name).tool
             validation_error == _validate_params(tool, params)
             run == Run(tool, params, behaviour)
         IN  IF validation_error # None
             THEN [raised |-> None, body |-> "not invoked",
                   steps |-> <<"lookup", "validate">>,
                   result |-> ToolResult(tool.name, FALSE, {}, validation_error)]
             ELSE IF run.raises = None
             THEN [raised |-> None, body |-> "returned",
                   steps |-> <<"lookup", "validate", "run">>,
                   result |-> ToolResult(tool.name, TRUE, run.output, None)]
             ELSE IF run.raises = "Exception"
             THEN [raised |-> None, body |-> "Exception",
                   steps |-> <<"lookup", "validate", "run">>,
                   result |-> ToolResult(tool.name, FALSE, {}, None)]
             ELSE [raised |-> "BaseException: " \o run.message,
                   steps |-> <<"lookup", "validate", "run">>,
                   body |-> "BaseException", result |-> NoResult]

\* Variant of execute that calls tool.run before it looks at the validation
\* error.
execute_run_first(d, tool_name, params, behaviour) ==
    IF get_tool(d, tool_name).raised # None
    THEN [raised |-> None, body |-> "not invoked", steps |-> <<"lookup">>,
          result |-> ToolResult(tool_name, FALSE, {},
                                "'Tool not found: " \o tool_name \o "'")]
    ELSE LET tool == get_tool(d, tool_name).tool
             validation_error == _validate_params(tool, params)
             run == Run(tool, params, behaviour)
         IN  IF validation_error # None
             THEN [raised |-> None, body |-> "returned",
                   steps |-> <<"lookup", "run", "validate">>,
                   result |-> ToolResult(tool.name, FALSE, {}, validation_error)]
             ELSE IF run.raises = None
             THEN [raised |-> None, body |-> "returned",
                   steps |-> <<"lookup", "validate", "run">>,
                   result |-> ToolResult(tool.name, TRUE, run.output, None)]
             ELSE IF run.raises = "Exception"
             THEN [raised |-> None, body |-> "Exception",
                   steps |-> <<"lookup", "validate", "run">>,
                   result |-> ToolResult(tool.name, FALSE, {}, run.message)]
             ELSE [raised |-> "BaseException: " \o run.message,
                   steps |-> <<"lookup", "validate", "run">>,
                   body |-> "BaseException", result |-> NoResult]

\* execute: [raised, body, steps, result].  body tells what the tool body
\* did, steps the order of get_tool, _validate_params and tool.run.
\* str(KeyError(msg)) is repr(msg).  `except Exception` does not catch an
\* exception that derives from BaseException only.
execute(d, tool_name, params, behaviour) ==
    IF get_tool(d, tool_name).raised # None
    THEN [raised |-> None, body |-> "not invoked", steps |-> <<"lookup">>,
          result |-> ToolResult(tool_name, FALSE, {},
                                "'Tool not found: " \o tool_name \o "'")]
    ELSE LET tool == get_tool(d, tool_name).tool
             validation_error == _validate_params(tool, params)
             run == Run(tool, params, behaviour)
         IN  IF validation_error # None
             THEN [raised |-> None, body |-> "not invoked",
                   steps |-> <<"lookup", "validate">>,
                   result |-> ToolResult(tool.name, FALSE, {}, validation_error)]
             ELSE IF run.raises = None
             THEN [raised |-> None, body |-> "returned",
                   steps |-> <<"lookup", "validate", "run">>,
                   result |-> ToolResult(tool.name, TRUE, run.output, None)]
             ELSE IF run.raises = "Exception"
             THEN [raised |-> None, body |-> "Exception",
                   steps |-> <<"lookup", "validate", "run">>,
                   result |-> ToolResult(tool.name, FALSE, {}, run.message)]
             ELSE [raised |-> "BaseException: " \o run.message,
                   steps |-> <<"lookup", "validate", "run">>,
                   body |-> "BaseException", result |-> NoResult]

(***************************************************************************)
(* Calls on one registry and its executor.                                 *)
(***************************************************************************)
Call(op, tool, name, params, exc, body, steps, result, listing) ==
    [ op |-> op, tool |-> tool, name |-> name, params |-> params,
      raised |-> exc, body |-> body, steps |-> steps, result |-> result,
      listing |-> listing ]

NoCall == Call("none", NoTool, None, << >>, None, "not invoked", << >>, NoResult, << >>)

\* The caller makes one call at a time: it makes a call when it holds no
\* outcome, and takes the outcome of the call before it goes on.
Idle ==
    call = NoCall

RegisterTool ==
    /\ Idle
    /\ \E tool \in ToolUniverse :
          /\ _tools' = register_tool(_tools, tool).tools
          /\ firstReg' = IF \E e \in firstReg : e.name = tool.name
                         THEN firstReg
                         ELSE firstReg \cup {[name |-> tool.name, tool |-> tool]}
          /\ call' = Call("register_tool", tool, tool.name, << >>,
                          register_tool(_tools, tool).raised,
                          "not invoked", << >>, NoResult, << >>)
    /\ UNCHANGED <<ctlVars, runVars>>

GetTool ==
    /\ Idle
    /\ \E i \in 1..Len(ToolNames) :
          call' = Call("get_tool", get_tool(_tools, ToolNames[i]).tool,
                       ToolNames[i], << >>,
                       get_tool(_tools, ToolNames[i]).raised,
                       "not invoked", << >>, NoResult, << >>)
    /\ UNCHANGED <<_tools, firstReg, ctlVars, runVars>>

ListTools ==
    /\ Idle
    /\ call' = Call("list_tools", NoTool, None, << >>, None,
                    "not invoked", << >>, NoResult, list_tools(_tools))
    /\ UNCHANGED <<_tools, firstReg, ctlVars, runVars>>

Execute ==
    /\ Idle
    /\ \E i \in 1..Len(ToolNames), params \in ParamDicts, behaviour \in BodyBehaviours :
          LET r == execute(_tools, ToolNames[i], params, behaviour)
          IN  call' = Call("execute", NoTool, ToolNames[i], params,
                           r.raised, r.body, r.steps, r.result, << >>)
    /\ UNCHANGED <<_tools, firstReg, ctlVars, runVars>>

\* The caller has taken the outcome of its call (a value or an exception).
Continue ==
    /\ ~Idle
    /\ call' = NoCall
    /\ UNCHANGED <<_tools, firstReg, ctlVars, runVars>>

\* ToolRegistry() and ToolExecutor(registry) have been constructed.
InitRegistry ==
    /\ _tools = << >>
    /\ firstReg = {}
    /\ call = NoCall

(***************************************************************************)
(* Two run_once calls whose loop iterations interleave.  A context holds   *)
(* its two lists by reference: planned_tools and tool_results are          *)
(* addresses into heap.                                                    *)
(***************************************************************************)
RunIds == {1, 2}

\* The goals and retry budgets of the two calls.
TwoRunGoals == <<"demo query", "other query">>
TwoRunMaxRetries == {1, 2}

\* Variant of the construction in which every context gets the same two lists.
AgentContextRef_shared(user_query, max_retries, base) ==
    [ user_query    |-> user_query,
      intent        |-> None,
      planned_tools |-> 1,
      tool_results  |-> 2,
      evaluation    |-> None,
      retries       |-> 0,
      max_retries   |-> max_retries ]

\* AgentContext(...) with field(default_factory=list): the two lists of the
\* new context are new objects, at the addresses base + 1 and base + 2.
AgentContextRef(user_query, max_retries, base) ==
    [ user_query    |-> user_query,
      intent        |-> None,
      planned_tools |-> base + 1,
      tool_results  |-> base + 2,
      evaluation    |-> None,
      retries       |-> 0,
      max_retries   |-> max_retries ]

\* The context with its lists read through their references.
Deref(ctx, h) ==
    [ctx EXCEPT !.planned_tools = h[ctx.planned_tools],
                !.tool_results = h[ctx.tool_results]]

\* AgentController(context): controller i of the two, before run().
NewRun(i, max_retries) ==
    [ state    |-> "ENTRY",
      ctx      |-> AgentContextRef(TwoRunGoals[i], max_retries, 2 * (i - 1)),
      raised   |-> None,
      trace    |-> << >>,
      verdicts |-> << >>,
      plan     |-> << >> ]

\* What the handler of state s makes of the context c.
_step(s, c, plan, v) ==
    CASE s = "ENTRY"        -> c
      [] s = "PLAN"         -> _plan(c, plan)
      [] s = "EXECUTE_TOOL" -> _execute_tool(c)
      [] s = "EVALUATE"     -> _evaluate(c, v)
      [] s = "REFLECT"      -> _reflect(c)
      [] s = "GENERATE"     -> _generate(c)
      [] s = "END"          -> c

\* One iteration of the loop of run() of controller i.  _plan binds
\* planned_tools to a new list; _execute_tool appends to the list that
\* tool_results refers to; the other handlers assign plain fields.
StepRun(i) ==
    LET r == runs[i]
    IN  /\ r.state # "END"
        /\ r.raised = None
        /\ IF r.state = "ENTRY" /\ _entry(Deref(r.ctx, heap)) # None
           THEN /\ runs' = [runs EXCEPT ![i].raised = _entry(Deref(r.ctx, heap))]
                /\ heap' = heap
           ELSE \E plan \in Plans, v \in Verdicts :
                  LET after == _step(r.state, Deref(r.ctx, heap), plan, v)
                      ctx2  == [after EXCEPT
                                  !.planned_tools =
                                      IF r.state = "PLAN" THEN Len(heap) + 1
                                      ELSE r.ctx.planned_tools,
                                  !.tool_results = r.ctx.tool_results]
                  IN  /\ r.state # "PLAN" => plan = r.plan
                      /\ r.state # "EVALUATE" => v = "sufficient"
                      /\ heap' = IF r.state = "PLAN"
                                 THEN Append(heap, after.planned_tools)
                                 ELSE [heap EXCEPT ![r.ctx.tool_results] =
                                                       after.tool_results]
                      /\ runs' = [runs EXCEPT ![i] =
                                    [ state    |-> _transition(r.state, after),
                                      ctx      |-> ctx2,
                                      raised   |-> None,
                                      trace    |-> Append(r.trace, r.state),
                                      verdicts |-> IF r.state = "EVALUATE"
                                                   THEN Append(r.verdicts, v)
                                                   ELSE r.verdicts,
                                      plan     |-> plan ]]
        /\ UNCHANGED <<ctlVars, toolVars>>

\* Two run_once calls have constructed their contexts and controllers.
InitRuns ==
    /\ \E m1, m2 \in TwoRunMaxRetries :
          runs = [i \in RunIds |-> NewRun(i, IF i = 1 THEN m1 ELSE m2)]
    /\ heap = << << >>, << >>, << >>, << >> >>

\* No concurrent calls are under way.
NoRuns ==
    /\ runs = [i \in RunIds |-> NewRun(i, 1)]
    /\ heap = << << >>, << >>, << >>, << >> >>

\* AgentController(AgentContext(user_query, max_retries=...)) has been
\* constructed and run() is called.
InitController ==
    /\ \E g \in Goals, m \in 0..MaxRetriesBound :
          /\ context = AgentContext(g, m)
          /\ context0 = AgentContext(g, m)
    /\ state = "ENTRY"
    /\ pc = "run"
    /\ raised = None
    /\ trace = << >>
    /\ verdicts = << >>

Init ==
    /\ InitController
    /\ InitRegistry
    /\ NoRuns

Next ==
    \/ Entry
    \/ Plan
    \/ ExecuteTool
    \/ Evaluate
    \/ Reflect
    \/ Generate
    \/ Return
    \/ RunAgain

vars == <<state, context, pc, raised, context0, trace, verdicts,
          _tools, firstReg, call, runs, heap>>

\* The controller: one run, for every goal and every max_retries.
Spec == Init /\ [][Next]_vars

\* run() is a sequential loop: while an iteration is possible it is taken.
SpecFair == Spec /\ WF_vars(Next)

\* The registry and the executor, called in any order by a caller; the
\* controller is the one run_once("demo query") constructs and stays idle.
InitTools ==
    /\ context = AgentContext("demo query", 1)
    /\ context0 = AgentContext("demo query", 1)
    /\ state = "ENTRY"
    /\ pc = "run"
    /\ raised = None
    /\ trace = << >>
    /\ verdicts = << >>
    /\ InitRegistry
    /\ NoRuns

NextTools ==
    \/ RegisterTool
    \/ GetTool
    \/ ListTools
    \/ Execute
    \/ Continue

SpecTools == InitTools /\ [][NextTools]_vars

\* Two run_once calls in two threads; the single controller and the registry
\* stay idle.
InitTwoRuns ==
    /\ context = AgentContext("demo query", 1)
    /\ context0 = AgentContext("demo query", 1)
    /\ state = "ENTRY"
    /\ pc = "run"
    /\ raised = None
    /\ trace = << >>
    /\ verdicts = << >>
    /\ InitRegistry
    /\ InitRuns

NextTwoRuns ==
    \E i \in RunIds : StepRun(i)

SpecTwoRuns == InitTwoRuns /\ [][NextTwoRuns]_vars

TypeOK ==
    /\ state \in AgentState
    /\ pc \in {"run", "rerun", "returned"}
    /\ context.retries \in Nat
    /\ Len(trace) <= MaxSteps

\* The cap MaxSteps never stops a run.
StepCapNotReached == Len(trace) < MaxSteps

(***************************************************************************)
(* Properties of the controller.                                           *)
(***************************************************************************)
\* Number of EXECUTE_TOOL visits of the run so far.
ExecuteToolVisits ==
    Cardinality({i \in 1..Len(trace) : trace[i] = "EXECUTE_TOOL"})

AllInsufficient ==
    /\ verdicts # << >>
    /\ \A i \in 1..Len(verdicts) : verdicts[i] = "insufficient"

\* C1: a run with a non-empty goal eventually reaches END, for every
\* max_retries and every sequence of verdicts.
C1_RunReachesEnd ==
    (context.user_query # "") ~> (state = "END")

\* A run that exhausted its retries without a sufficient verdict is in END.
C1_Witness ==
    /\ state = "END"
    /\ AllInsufficient
    /\ context.max_retries >= 2

\* C2 as stated: END is reached within 3 + 2*maxRetries state visits.
C2_Original ==
    state = "END" => Len(trace) <= 3 + 2 * context.max_retries

\* C2 amended: the handlers executed before END is reached number at most
\* 6 + 3*maxRetries (ENTRY, PLAN, GENERATE once; EXECUTE_TOOL, EVALUATE,
\* REFLECT once plus once per retry).
C2_VisitsBounded ==
    Len(trace) <= 6 + 3 * context.max_retries

\* A finished run that went through the retry loop.
C2_Witness ==
    /\ state = "END"
    /\ Len(trace) > 6
    /\ Len(verdicts) > 1

C5_ResponseSetAtEnd ==
    state = "END" => "response" \in DOMAIN context

\* C6: with an empty goal the run never leaves ENTRY, no handler completes and
\* the context stays as constructed; the only exception run() raises is the
\* one of _entry for an empty goal.
C6_EmptyGoalFailsInEntry ==
    /\ context0.user_query = ""
          => /\ state = "ENTRY"
             /\ context = context0
             /\ trace = << >>
             /\ pc = "run"
    /\ raised # None
          => /\ context0.user_query = ""
             /\ raised = "ValueError: user_query must be non-empty"

\* run() has raised for an empty goal.
C6_Witness ==
    /\ context0.user_query = ""
    /\ raised # None

\* The transition table of the controller, row by row.
TransitionTable(s, evaluation, retries, max_retries) ==
    { t \in AgentState :
        \/ s = "ENTRY" /\ t = "PLAN"
        \/ s = "PLAN" /\ t = "EXECUTE_TOOL"
        \/ s = "EXECUTE_TOOL" /\ t = "EVALUATE"
        \/ s = "EVALUATE" /\ t = "REFLECT"
        \/ s = "REFLECT" /\ evaluation = "sufficient" /\ t = "GENERATE"
        \/ s = "REFLECT" /\ evaluation # "sufficient" /\ retries < max_retries
              /\ t = "EXECUTE_TOOL"
        \/ s = "REFLECT" /\ evaluation # "sufficient" /\ retries >= max_retries
              /\ t = "GENERATE"
        \/ s = "GENERATE" /\ t = "END"
        \/ s = "END" /\ t = "END" }

\* C7: every iteration of the loop moves to the one state the table gives for
\* the current state and the context as the state's handler left it.
C7_TransitionsFollowTable ==
    [][ trace' # trace =>
          TransitionTable(state, context'.evaluation, context'.retries,
                          context'.max_retries) = {state'} ]_vars

\* REFLECT has routed back to EXECUTE_TOOL and the run has finished.
C7_Witness ==
    /\ state = "END"
    /\ \E i \in 1..(Len(trace) - 1) :
          trace[i] = "REFLECT" /\ trace[i + 1] = "EXECUTE_TOOL"

(***************************************************************************)
(* Properties of the registry and the executor.                            *)
(***************************************************************************)
\* The violations of a request's params against a tool, as sets of keys.
UnexpectedKeys(tool, params) ==
    {params[i][1] : i \in 1..Len(params)} \ DOMAIN tool.param_schema

MissingKeys(tool, params) ==
    {tool.required_params[i] : i \in 1..Len(tool.required_params)}
        \ {params[i][1] : i \in 1..Len(params)}

MistypedKeys(tool, params) ==
    { k \in {params[i][1] : i \in 1..Len(params)} \cap DOMAIN tool.param_schema :
        \E i \in 1..Len(params) :
            /\ params[i][1] = k
            /\ TypeOf(params[i][2]) # tool.param_schema[k]
            /\ ~(TypeOf(params[i][2]) = "bool" /\ tool.param_schema[k] = "int") }

ValidationFails(tool, params) ==
    \/ UnexpectedKeys(tool, params) # {}
    \/ MissingKeys(tool, params) # {}
    \/ MistypedKeys(tool, params) # {}

\* The request of the call must fail: its tool is not registered or its
\* params violate the tool's schema.
RequestMustFail ==
    \/ ~Contains(_tools, call.name)
    \/ ValidationFails(Item(_tools, call.name), call.params)

C9_FirstViolationReported ==
    (call.op = "execute" /\ Contains(_tools, call.name)) =>
        LET tool == Item(_tools, call.name)
            p    == call.params
            req  == tool.required_params
        IN  /\ UnexpectedKeys(tool, p) # {} =>
                  \E i \in 1..Len(p) :
                      /\ p[i][1] \in UnexpectedKeys(tool, p)
                      /\ \A j \in 1..(i - 1) : p[j][1] \notin UnexpectedKeys(tool, p)
                      /\ call.result.error = "Unexpected parameter: " \o p[i][1]
            /\ (UnexpectedKeys(tool, p) = {} /\ MissingKeys(tool, p) # {}) =>
                  \E i \in 1..Len(req) :
                      /\ req[i] \in MissingKeys(tool, p)
                      /\ \A j \in 1..(i - 1) : req[j] \notin MissingKeys(tool, p)
                      /\ call.result.error = "Missing required parameter: " \o req[i]
            /\ (UnexpectedKeys(tool, p) = {} /\ MissingKeys(tool, p) = {}
                   /\ MistypedKeys(tool, p) # {}) =>
                  \E i \in 1..Len(p) :
                      /\ p[i][1] \in MistypedKeys(tool, p)
                      /\ \A j \in 1..(i - 1) : p[j][1] \notin MistypedKeys(tool, p)
                      /\ call.result.error =
                            "Invalid type for " \o p[i][1] \o ": expected "
                               \o tool.param_schema[p[i][1]]
            /\ ValidationFails(tool, p) =>
                  /\ call.raised = None
                  /\ call.result.ok = FALSE

\* A request with a wrongly typed value, an unexpected key and no required
\* key was reported as having an unexpected parameter.
C9_Witness ==
    /\ call.op = "execute"
    /\ Contains(_tools, call.name)
    /\ Item(_tools, call.name) = MockSQLTool
    /\ call.params = << <<"limit", "'SELECT 1'">>, <<"bogus", "1">> >>
    /\ call.result.error = "Unexpected parameter: bogus"

\* C10: register_tool of a present name raises the duplicate error and leaves
\* the registry as it was; no call removes a name or changes the tool it maps
\* to; so every name ever registered maps to the tool it was first
\* registered with.
C10_FirstRegistrationKept ==
    /\ [](/\ \A e \in firstReg :
                Contains(_tools, e.name) /\ Item(_tools, e.name) = e.tool
          /\ \A i \in 1..Len(_tools) : \E e \in firstReg : e.name = _tools[i].name)
    /\ [][ /\ (call'.op = "register_tool" /\ call.op = "none"
                  /\ Contains(_tools, call'.name))
              => /\ call'.raised = "ValueError: Tool already registered: "
                                      \o call'.name
                 /\ _tools' = _tools
           /\ \A i \in 1..Len(_tools) :
                 /\ Contains(_tools', _tools[i].name)
                 /\ Item(_tools', _tools[i].name) = _tools[i].tool ]_vars

\* A second tool named mock_sql was refused; mock_sql still maps to the first.
C10_Witness ==
    /\ call.op = "register_tool"
    /\ call.tool = OtherSQLTool
    /\ call.raised = "ValueError: Tool already registered: mock_sql"
    /\ Len(_tools) >= 2
    /\ Item(_tools, "mock_sql") = MockSQLTool

C13_ListSortedAndComplete ==
    call.op = "list_tools" =>
        /\ Len(call.listing) = Len(_tools)
        /\ {call.listing[i] : i \in 1..Len(call.listing)}
              = {_tools[i].name : i \in 1..Len(_tools)}
        /\ \A i, j \in 1..Len(call.listing) :
              i < j => StrLess(call.listing[i], call.listing[j])

\* Three tools registered in descending order of their names, and listed.
C13_Witness ==
    /\ call.op = "list_tools"
    /\ Len(_tools) = 3
    /\ _tools[1].name = "mock_vector_search"
    /\ _tools[3].name = "custom"
    /\ call.listing = <<"custom", "mock_sql", "mock_vector_search">>

\* C14: execute looks the tool up, then validates, then invokes the body: the
\* body is invoked at most once, only as the last step after a successful
\* lookup and a validation without violation, and never for a request that
\* fails lookup or validation.
C14_LookupValidateRun ==
    call.op = "execute" =>
        /\ call.steps \in { <<"lookup">>, <<"lookup", "validate">>,
                            <<"lookup", "validate", "run">> }
        /\ Cardinality({i \in 1..Len(call.steps) : call.steps[i] = "run"}) <= 1
        /\ (\E i \in 1..Len(call.steps) : call.steps[i] = "run")
              <=> ~RequestMustFail
        /\ (call.body # "not invoked")
              <=> (\E i \in 1..Len(call.steps) : call.steps[i] = "run")
        /\ ~Contains(_tools, call.name) => call.steps = <<"lookup">>

\* A registered tool was called with invalid params and its body did not run.
C14_Witness ==
    /\ call.op = "execute"
    /\ Contains(_tools, call.name)
    /\ ValidationFails(Item(_tools, call.name), call.params)
    /\ call.steps = <<"lookup", "validate">>
    /\ call.body = "not invoked"

(***************************************************************************)
(* Further properties of the controller.                                   *)
(***************************************************************************)
\* Number of visits of state s in the run so far.
Visits(s) ==
    Cardinality({i \in 1..Len(trace) : trace[i] = s})

\* The strings _execute_tool appends in place of a tool's result.
Placeholders ==
    {t \o "_result_placeholder" : t \in PlanTools} \cup {"no_tool_planned"}

\* C12: an EXECUTE_TOOL visit calls the executor for the planned tool and
\* appends the ToolResult it returns (not ok when the tool is not registered),
\* and the run goes on to EVALUATE.
C12_ExecutorResultAppended ==
    (Visits("EXECUTE_TOOL") > 0 /\ context.planned_tools # << >>
        /\ ~Contains(_tools, context.planned_tools[1])) =>
        /\ call.op = "execute"
        /\ call.name = context.planned_tools[1]
        /\ context.tool_results[Len(context.tool_results)] \notin Placeholders

\* C15: tool_results only grows at its end, by one entry in each EXECUTE_TOOL
\* visit and in no other step, so its length is the number of EXECUTE_TOOL
\* visits, in particular at every EVALUATE visit.
C15_OneResultPerExecuteVisit ==
    /\ [](Len(context.tool_results) = Visits("EXECUTE_TOOL"))
    /\ [][ /\ Len(context.tool_results') >= Len(context.tool_results)
           /\ SubSeq(context.tool_results', 1, Len(context.tool_results))
                 = context.tool_results
           /\ (state = "EXECUTE_TOOL" /\ trace' # trace)
                 => Len(context.tool_results') = Len(context.tool_results) + 1
           /\ ~(state = "EXECUTE_TOOL" /\ trace' # trace)
                 => context.tool_results' = context.tool_results ]_vars

\* EVALUATE is visited for the second time, with two results.
C15_Witness ==
    /\ state = "EVALUATE"
    /\ Visits("EVALUATE") = 1
    /\ Len(context.tool_results) = 2

\* C16: a REFLECT visit adds 1 to retries when evaluation is not sufficient
\* and changes nothing else; it changes nothing when evaluation is sufficient;
\* no other step changes retries; at END retries is the number of
\* insufficient verdicts.
C16_ReflectCountsInsufficient ==
    /\ [][ /\ (state = "REFLECT" /\ trace' # trace /\ context.evaluation # "sufficient")
                 => context' = [context EXCEPT !.retries = context.retries + 1]
           /\ (state = "REFLECT" /\ trace' # trace /\ context.evaluation = "sufficient")
                 => context' = context
           /\ ~(state = "REFLECT" /\ trace' # trace)
                 => context.retries' = context.retries ]_vars
    /\ [](state = "END" =>
            context.retries =
               Cardinality({i \in 1..Len(verdicts) : verdicts[i] = "insufficient"}))

\* A finished run whose REFLECT saw two insufficient verdicts and a sufficient one.
C16_Witness ==
    /\ state = "END"
    /\ verdicts = <<"insufficient", "insufficient", "sufficient">>
    /\ context.retries = 2

\* C17: user_query never changes; planned_tools changes only in the PLAN
\* visit; PLAN is visited at most once.
C17_GoalAndPlanFixed ==
    /\ [](/\ context.user_query = context0.user_query
          /\ Visits("PLAN") <= 1
          /\ Visits("PLAN") = 0 => context.planned_tools = context0.planned_tools)
    /\ [][ /\ context.user_query' = context.user_query
           /\ ~(state = "PLAN" /\ trace' # trace)
                 => context.planned_tools' = context.planned_tools ]_vars

\* A finished run that went through a retry, with its one PLAN visit.
C17_Witness ==
    /\ state = "END"
    /\ Visits("PLAN") = 1
    /\ Visits("EXECUTE_TOOL") >= 2
    /\ context.planned_tools # << >>

C20_EndIsAbsorbing ==
    /\ [][ state = "END" =>
              /\ state' = "END"
              /\ context' = context
              /\ trace' = trace ]_vars
    /\ [](pc = "rerun" => state = "END")
    /\ [][ pc = "rerun" => pc' \in {"rerun", "returned"} ]_vars

\* run() has been called again on a controller that had finished.
C20_Witness ==
    /\ pc = "rerun"
    /\ state = "END"
    /\ Len(trace) >= 6

(***************************************************************************)
(* Properties of concurrent runs.                                          *)
(***************************************************************************)
\* The context a run has after the first k handlers of its trace when it
\* runs alone, given its plan and its verdicts.
RECURSIVE AloneContext(_, _, _)
AloneContext(r, c0, k) ==
    IF k = 0 THEN c0
    ELSE _step(r.trace[k], AloneContext(r, c0, k - 1), r.plan,
               IF r.trace[k] = "EVALUATE"
               THEN r.verdicts[Cardinality({j \in 1..k : r.trace[j] = "EVALUATE"})]
               ELSE "sufficient")

\* The state a run is in after the first k handlers of its trace when it
\* runs alone.
AloneState(r, c0, k) ==
    IF k = 0 THEN "ENTRY" ELSE _transition(r.trace[k], AloneContext(r, c0, k))

\* C19: whatever the interleaving, each of the two runs visits the states and
\* has the context it has when it runs alone with the same plan and
\* verdicts, and a step of one run leaves the context of the other as it was.
C19_RunsDoNotInterfere ==
    /\ [](\A i \in RunIds :
            LET r  == runs[i]
                c0 == AgentContext(TwoRunGoals[i], r.ctx.max_retries)
            IN  /\ Deref(r.ctx, heap) = AloneContext(r, c0, Len(r.trace))
                /\ r.state = AloneState(r, c0, Len(r.trace))
                /\ \A k \in 1..Len(r.trace) :
                      r.trace[k] = AloneState(r, c0, k - 1))
    /\ [][ \A i \in RunIds :
              runs'[i].trace = runs[i].trace
                 => Deref(runs'[i].ctx, heap') = Deref(runs[i].ctx, heap) ]_vars

\* Both runs have finished, each after a retry, with different plans.
C19_Witness ==
    /\ \A i \in RunIds :
          /\ runs[i].state = "END"
          /\ Len(heap[runs[i].ctx.tool_results]) = 2
    /\ runs[1].plan # runs[2].plan
    /\ runs[1].plan # << >>
    /\ runs[2].plan # << >>

====
